---- MODULE Spec2Model ----
(***************************************************************************)
(* Remote teleoperation of a follower arm.                                 *)
(*                                                                         *)
(* Profile A: so100_follower_server.main (the follower loop) and           *)
(* SO100FollowerClient (the leader side), joined by two ZeroMQ PUSH/PULL   *)
(* links.  Profile B: scripts/follower_server.main and                     *)
(* scripts/leader_client.main over one TCP connection, the leader finding  *)
(* the follower with network_utils.discover_host.                          *)
(*                                                                         *)
(* ZeroMQ as used by the code: a socket's pipe to a peer is created by     *)
(* connect() (connecting side) or when a peer arrives (binding side), with *)
(* the options the socket has at that moment; zmq.CONFLATE set afterwards  *)
(* does not change an existing pipe.  A conflated pipe holds one message,  *)
(* a write replacing it; any other pipe is a FIFO queue.  The I/O threads  *)
(* move messages from the sender's pipe to the receiver's pipe             *)
(* asynchronously.                                                         *)
(*                                                                         *)
(* Time is an integer clock in units of one loop period.                   *)
(***************************************************************************)
EXTENDS Integers, Sequences, FiniteSets, TLC

\* ------------------------------------------------------------ bounds
\* Commands the leader sends in one run: of the exchange, of the watchdog and
\* of the teardown specification.
MaxCmdsA == 2
MaxCmdsW == 1
MaxCmdsT == 1
\* Longest time one tick's work (observe and encode) takes, in clock units.
MaxWork == 2
\* connect() calls of the client in one run.
MaxConnects == 1
\* connection_time_s of the run, in clock units, per specification.
RunA == 2
RunW == 6
RunT == 2
\* watchdog_timeout_ms of the run, in clock units.
WatchdogTimeout == 1

\* 1 / max_loop_freq_hz: the clock's unit.
Period == 1

VARIABLES
    \* so100_follower_server.main
    cfg,                \* SO100FollowerServerConfig: connection_time_s, watchdog_timeout_ms
    fpc,                \* position in main
    fexc,               \* exception in flight: "none", "kbint", "error"
    robot_connected,    \* robot.connect() done and robot.disconnect() not
    host_open,          \* resources of SO100FollowerServer still open
    clock,              \* time.time() / time.perf_counter()
    start, duration, loop_start_time, last_cmd_time, now, watchdog_active,
    f_observation,      \* main's last_observation, between observe and send
    \* ZeroMQ
    cmd_link, obs_link, \* connection established, per direction
    c_cmd_pipe,         \* client PUSH outbound pipe
    s_cmd_pipe,         \* server PULL inbound pipe
    s_obs_pipe,         \* server PUSH outbound pipe
    c_obs_pipe,         \* client PULL inbound pipe
    \* SO100FollowerClient
    cpc,                \* "idle", "polling", "connected", "failed"
    is_connected, last_observation, connects,
    c_open,             \* contexts, each with its two sockets, created and not closed
    c_rejected,         \* the call the _is_connected check refused last, and its error
    \* history
    cmd_seq,            \* Commands sent so far (the last one's number)
    obs_seq,            \* Observations sent so far
    applied,            \* numbers of the Commands given to robot.send_action
    superseded,         \* Commands followed by a later send before the next tick
    sends_since_tick,   \* send_action calls since the follower's last receive
    obs_since_get,      \* Observations sent since the last get_observation
    drained,            \* messages the last get_observation read
    obs_readable,       \* an Observation has reached the client's socket
    trip_warnings,      \* "Command not received" warnings since the last applied Command
    nocmd_warnings,     \* "No command available" warnings since the last applied Command
    trips,              \* "Command not received" warnings in the run
    cmd_error,          \* the tick's received Command raised while decoded or applied
    unlinked,           \* Commands sent while the command link was not up
    last_poll,          \* how the last get_observation ended
    \* SO100FollowerServer._discovery_loop and the discovery port
    d_pc,               \* the discovery thread: "off", "recv", "ended"
    d_running,          \* self._running
    d_inbox,            \* datagrams waiting at the discovery port
    d_sent,             \* datagrams sent to the discovery port so far
    d_received,         \* datagrams recvfrom returned while the server ran
    d_replies,          \* replies the thread has sent
    d_failed,           \* datagrams whose reply raised OSError
    \* the network of Profile B
    faddr,              \* the follower's address in the scanned range
    others_open,        \* other hosts of the range with the port open
    accept_queue,       \* connections completed on the follower's listening socket
    sstat,              \* per connection, the server side: "none", "queued",
                        \* "accepted", "closed", "reset"
    copen,              \* per connection, the client side is open
    wire_up,            \* per connection, bytes in flight to the server
    wire_down,          \* per connection, bytes in flight to the client
    svc_lines,          \* lines the service at another host may still send
    str_lines,          \* lines another TCP client may still send
    \* scripts/follower_server.main
    b_pc, b_exc, b_robot_connected,
    b_server,           \* the listening socket: "none", "open", "listening", "closed"
    b_conn,             \* the accepted connection, or "none"
    b_conn_open, b_buffer,
    b_applied,          \* the actions given to robot.send_action, in order
    b_hs_sent,          \* handshake lines sent
    b_recvs,            \* conn.recv calls that returned
    \* scripts/leader_client.main and discover_host
    l_pc, l_scan, l_ip,
    l_probed,           \* the hosts discover_host has probed, in order
    l_sock,             \* "none", "open", "closed"
    l_buffer, l_handshake,
    l_sent,             \* Command lines written
    l_teleop            \* the teleoperator is connected

followerVars == <<fpc, fexc, robot_connected, host_open, clock, start, duration,
                  loop_start_time, last_cmd_time, now, watchdog_active, f_observation>>
zmqVars == <<cmd_link, obs_link, c_cmd_pipe, s_cmd_pipe, s_obs_pipe, c_obs_pipe>>
clientVars == <<cpc, is_connected, last_observation, connects, c_open, c_rejected>>
histVars == <<cmd_seq, obs_seq, applied, superseded, sends_since_tick, obs_since_get,
              drained, obs_readable, trip_warnings, nocmd_warnings, trips,
              cmd_error, unlinked, last_poll>>
netVars == <<faddr, others_open, accept_queue, sstat, copen, wire_up, wire_down,
             svc_lines, str_lines>>
bVars == <<b_pc, b_exc, b_robot_connected, b_server, b_conn, b_conn_open, b_buffer,
           b_applied, b_hs_sent, b_recvs>>
lVars == <<l_pc, l_scan, l_ip, l_probed, l_sock, l_buffer, l_handshake, l_sent, l_teleop>>
beaconVars == <<d_pc, d_running, d_inbox, d_sent, d_received, d_replies, d_failed>>
profileA == <<cfg, followerVars, zmqVars, clientVars, histVars, beaconVars>>
profileB == <<netVars, bVars, lVars>>
vars == <<profileA, profileB>>

\* A step of one profile leaves the other profile's variables alone.
OnlyA == UNCHANGED <<cfg, profileB, beaconVars>>
OnlyHost == UNCHANGED <<cfg, profileB>>
OnlyB == UNCHANGED profileA

Max(a, b) == IF a >= b THEN a ELSE b
Last(s) == s[Len(s)]

\* ------------------------------------------------------------ ZeroMQ pipes
\* A write to a pipe created with zmq.CONFLATE already set: the message
\* replaces what the pipe holds.
ConflatedWrite(pipe, m) == <<m>>
\* A write to a pipe created without it: the message queues behind the others.
QueuedWrite(pipe, m) == Append(pipe, m)

\* Server sockets: setsockopt(CONFLATE) comes before bind().
ServerCmdPipeWrite(pipe, m) == ConflatedWrite(pipe, m)
ServerObsPipeWrite(pipe, m) == ConflatedWrite(pipe, m)
\* Client sockets: connect() comes first, setsockopt(CONFLATE) after it.
ClientCmdPipeWrite(pipe, m) == QueuedWrite(pipe, m)
ClientObsPipeWrite(pipe, m) == QueuedWrite(pipe, m)

HostResources == {"zmq_context", "zmq_cmd_socket", "zmq_observation_socket",
                  "_discovery_socket"}
ClientSocketsOpen == cpc \in {"polling", "connected", "failed"}
NoRejection == [call |-> "none", error |-> "none"]

\* --------------------------------------------------------- the TCP network
Conns == {"probe", "session", "stranger"}
NoBytes == [c \in Conns |-> <<>>]

\* Profile B not started: the state of its variables in the specifications of
\* Profile A.
IdleB ==
    /\ faddr = 0 /\ others_open = {}
    /\ accept_queue = <<>>
    /\ sstat = [c \in Conns |-> "none"]
    /\ copen = [c \in Conns |-> FALSE]
    /\ wire_up = NoBytes /\ wire_down = NoBytes
    /\ svc_lines = 0 /\ str_lines = 0
    /\ b_pc = "off" /\ b_exc = "none" /\ b_robot_connected = FALSE
    /\ b_server = "none" /\ b_conn = "none" /\ b_conn_open = FALSE
    /\ b_buffer = <<>> /\ b_applied = <<>> /\ b_hs_sent = 0 /\ b_recvs = 0
    /\ l_pc = "off" /\ l_scan = 0 /\ l_ip = 0 /\ l_probed = <<>>
    /\ l_sock = "none" /\ l_buffer = <<>> /\ l_handshake = "none"
    /\ l_sent = 0 /\ l_teleop = FALSE

\* ------------------------------------------------- so100_follower_server
InTry == {"loop_check", "recv", "watchdog", "observe", "send", "sleep"}
AfterWatchdog == {"observe", "send", "sleep"}
NoObservation == [seq |-> 0, cam |-> ""]

\* SO100FollowerServer.__init__, called by main after robot.connect() and
\* before the try block: the context and the command socket, then the
\* observation socket, then the discovery socket; a bind that fails raises
\* out of main with what was created before it left open.
HostInit(outcomes) ==
    /\ fpc = "host_init"
    /\ \E outcome \in outcomes :
         /\ host_open' = CASE outcome = "ok" -> HostResources
                           [] outcome = "cmd_bind_fails" ->
                                {"zmq_context", "zmq_cmd_socket"}
                           [] outcome = "obs_bind_fails" ->
                                {"zmq_context", "zmq_cmd_socket", "zmq_observation_socket"}
                           [] outcome = "discovery_bind_fails" -> HostResources
         /\ IF outcome = "ok"
              THEN /\ fpc' = "loop_check"
                   /\ fexc' = fexc
                   /\ last_cmd_time' = clock
                   /\ start' = clock
                   /\ duration' = 0
              ELSE /\ fpc' = "raised"
                   /\ fexc' = "error"
                   /\ UNCHANGED <<last_cmd_time, start, duration>>
         /\ d_running' = (outcome \in {"ok", "discovery_bind_fails"})
         /\ d_pc' = IF outcome = "ok" THEN "recv" ELSE d_pc
    /\ watchdog_active' = FALSE
    /\ UNCHANGED <<robot_connected, clock, loop_start_time, now, f_observation>>
    /\ UNCHANGED <<zmqVars, clientVars, histVars>>
    /\ UNCHANGED <<d_inbox, d_sent, d_received, d_replies, d_failed>>

\* LoopCheck leaving the loop one period early.
LoopCheckEarly ==
    /\ fpc = "loop_check"
    /\ IF duration + Period < cfg.connection_time_s
         THEN fpc' = "recv" /\ loop_start_time' = clock
         ELSE fpc' = "finally_robot" /\ loop_start_time' = loop_start_time
    /\ UNCHANGED <<fexc, robot_connected, host_open, clock, start, duration,
                   last_cmd_time, now, watchdog_active, f_observation>>
    /\ UNCHANGED <<zmqVars, clientVars, histVars>>

\* while duration < host.connection_time_s: ... loop_start_time = time.time()
LoopCheck ==
    /\ fpc = "loop_check"
    /\ IF duration < cfg.connection_time_s
         THEN fpc' = "recv" /\ loop_start_time' = clock
         ELSE fpc' = "finally_robot" /\ loop_start_time' = loop_start_time
    /\ UNCHANGED <<fexc, robot_connected, host_open, clock, start, duration,
                   last_cmd_time, now, watchdog_active, f_observation>>
    /\ UNCHANGED <<zmqVars, clientVars, histVars>>

\* The inner try of a tick without the except Exception clause: a Command
\* that raises while decoded or applied leaves the loop.
TickRecvErrorExits(errors) ==
    /\ fpc = "recv"
    /\ sends_since_tick' = 0
    /\ IF s_cmd_pipe = <<>>
         THEN /\ nocmd_warnings' = IF watchdog_active THEN nocmd_warnings
                                                      ELSE nocmd_warnings + 1
              /\ cmd_error' = FALSE
              /\ fpc' = "watchdog"
              /\ UNCHANGED <<s_cmd_pipe, applied, last_cmd_time, watchdog_active,
                             trip_warnings, fexc>>
         ELSE /\ s_cmd_pipe' = Tail(s_cmd_pipe)
              /\ \E raises \in errors :
                   IF raises
                     THEN /\ cmd_error' = TRUE
                          /\ fpc' = "finally_robot"
                          /\ fexc' = "error"
                          /\ UNCHANGED <<applied, last_cmd_time, watchdog_active,
                                         trip_warnings, nocmd_warnings>>
                     ELSE /\ cmd_error' = FALSE
                          /\ fpc' = "watchdog"
                          /\ fexc' = fexc
                          /\ applied' = applied \cup {Head(s_cmd_pipe)}
                          /\ last_cmd_time' = clock
                          /\ watchdog_active' = FALSE
                          /\ trip_warnings' = 0
                          /\ nocmd_warnings' = 0
    /\ UNCHANGED <<robot_connected, host_open, clock, start, duration,
                   loop_start_time, now, f_observation>>
    /\ UNCHANGED <<cmd_link, obs_link, c_cmd_pipe, s_obs_pipe, c_obs_pipe>>
    /\ UNCHANGED <<clientVars, cmd_seq, obs_seq, superseded, obs_since_get, drained,
                   obs_readable, trips, unlinked, last_poll>>

\* The inner try of a tick: recv_string(NOBLOCK), json.loads, robot.send_action.
\* zmq.Again: the warning, unless the watchdog has tripped.  Any other
\* exception (the decoding or robot.send_action raising) is logged as an error.
TickRecv(errors) ==
    /\ fpc = "recv"
    /\ fpc' = "watchdog"
    /\ sends_since_tick' = 0
    /\ IF s_cmd_pipe = <<>>
         THEN /\ nocmd_warnings' = IF watchdog_active THEN nocmd_warnings
                                                      ELSE nocmd_warnings + 1
              /\ cmd_error' = FALSE
              /\ UNCHANGED <<s_cmd_pipe, applied, last_cmd_time, watchdog_active,
                             trip_warnings>>
         ELSE /\ s_cmd_pipe' = Tail(s_cmd_pipe)
              /\ \E raises \in errors :
                   IF raises
                     THEN /\ cmd_error' = TRUE
                          /\ UNCHANGED <<applied, last_cmd_time, watchdog_active,
                                         trip_warnings, nocmd_warnings>>
                     ELSE /\ cmd_error' = FALSE
                          /\ applied' = applied \cup {Head(s_cmd_pipe)}
                          /\ last_cmd_time' = clock
                          /\ watchdog_active' = FALSE
                          /\ trip_warnings' = 0
                          /\ nocmd_warnings' = 0
    /\ UNCHANGED <<fexc, robot_connected, host_open, clock, start, duration,
                   loop_start_time, now, f_observation>>
    /\ UNCHANGED <<cmd_link, obs_link, c_cmd_pipe, s_obs_pipe, c_obs_pipe>>
    /\ UNCHANGED <<clientVars, cmd_seq, obs_seq, superseded, obs_since_get, drained,
                   obs_readable, trips, unlinked, last_poll>>

\* Stale tripping already at the timeout.
StaleAtTimeout(t, last) == t - last >= cfg.watchdog_timeout_ms

\* now - last_cmd_time > host.watchdog_timeout_ms / 1000
Stale(t, last) == t - last > cfg.watchdog_timeout_ms

\* TickWatchdog warning on every stale tick (level-triggered).
TickWatchdogLevel ==
    /\ fpc = "watchdog"
    /\ fpc' = "observe"
    /\ now' = clock
    /\ IF Stale(clock, last_cmd_time)
         THEN /\ watchdog_active' = TRUE
              /\ trip_warnings' = trip_warnings + 1
              /\ trips' = trips + 1
         ELSE UNCHANGED <<watchdog_active, trip_warnings, trips>>
    /\ UNCHANGED <<fexc, robot_connected, host_open, clock, start, duration,
                   loop_start_time, last_cmd_time, f_observation>>
    /\ UNCHANGED <<zmqVars, clientVars>>
    /\ UNCHANGED <<cmd_seq, obs_seq, applied, superseded, sends_since_tick,
                   obs_since_get, drained, obs_readable, nocmd_warnings, cmd_error,
                   unlinked, last_poll>>

\* now = time.time(); the tripped warning and watchdog_active = True.
TickWatchdog ==
    /\ fpc = "watchdog"
    /\ fpc' = "observe"
    /\ now' = clock
    /\ IF Stale(clock, last_cmd_time) /\ ~watchdog_active
         THEN /\ watchdog_active' = TRUE
              /\ trip_warnings' = trip_warnings + 1
              /\ trips' = trips + 1
         ELSE UNCHANGED <<watchdog_active, trip_warnings, trips>>
    /\ UNCHANGED <<fexc, robot_connected, host_open, clock, start, duration,
                   loop_start_time, last_cmd_time, f_observation>>
    /\ UNCHANGED <<zmqVars, clientVars>>
    /\ UNCHANGED <<cmd_seq, obs_seq, applied, superseded, sends_since_tick,
                   obs_since_get, drained, obs_readable, nocmd_warnings, cmd_error,
                   unlinked, last_poll>>

\* robot.get_observation() and cv2.imencode of the camera frame: the field
\* becomes the base64 text, or "" when imencode returns ret = False.  Either
\* call raising leaves the loop.  The work takes w clock units.
TickObserve(works, outcomes) ==
    /\ fpc = "observe"
    /\ \E w \in works, outcome \in outcomes :
         /\ clock' = clock + w
         /\ IF outcome = "raises"
              THEN /\ fpc' = "finally_robot"
                   /\ fexc' = "error"
                   /\ f_observation' = NoObservation
              ELSE /\ fpc' = "send"
                   /\ fexc' = fexc
                   /\ f_observation' =
                        [seq |-> obs_seq + 1,
                         cam |-> IF outcome = "encoded" THEN "b64" ELSE ""]
    /\ UNCHANGED <<robot_connected, host_open, start, duration, loop_start_time,
                   last_cmd_time, now, watchdog_active>>
    /\ UNCHANGED <<zmqVars, clientVars, histVars>>

\* send_string(json.dumps(last_observation), flags=NOBLOCK): with no peer the
\* PUSH socket raises zmq.Again and the observation is dropped; any other
\* ZMQError leaves the loop.
TickSend(errors) ==
    /\ fpc = "send"
    /\ \E zmq_error \in errors :
         IF zmq_error
           THEN /\ fpc' = "finally_robot"
                /\ fexc' = "error"
                /\ UNCHANGED <<s_obs_pipe, obs_seq, obs_since_get>>
           ELSE /\ fpc' = "sleep"
                /\ fexc' = fexc
                /\ IF obs_link
                     THEN /\ s_obs_pipe' = ServerObsPipeWrite(s_obs_pipe, f_observation)
                          /\ obs_seq' = obs_seq + 1
                          /\ obs_since_get' = obs_since_get + 1
                     ELSE UNCHANGED <<s_obs_pipe, obs_seq, obs_since_get>>
    /\ f_observation' = NoObservation
    /\ UNCHANGED <<robot_connected, host_open, clock, start, duration, loop_start_time,
                   last_cmd_time, now, watchdog_active>>
    /\ UNCHANGED <<cmd_link, obs_link, c_cmd_pipe, s_cmd_pipe, c_obs_pipe>>
    /\ UNCHANGED <<clientVars, cmd_seq, applied, superseded, sends_since_tick, drained,
                   obs_readable, trip_warnings, nocmd_warnings, trips, cmd_error,
                   unlinked, last_poll>>

\* The end of a tick sleeping a whole period whatever the tick's work took.
TickSleepFullPeriod ==
    /\ fpc = "sleep"
    /\ fpc' = "loop_check"
    /\ clock' = clock + Period
    /\ duration' = clock' - start
    /\ UNCHANGED <<fexc, robot_connected, host_open, start, loop_start_time,
                   last_cmd_time, now, watchdog_active, f_observation>>
    /\ UNCHANGED <<zmqVars, clientVars, histVars>>

\* elapsed = time.time() - loop_start_time
\* time.sleep(max(1 / max_loop_freq_hz - elapsed, 0)); duration = perf_counter() - start
TickSleep ==
    /\ fpc = "sleep"
    /\ fpc' = "loop_check"
    /\ clock' = clock + Max(Period - (clock - loop_start_time), 0)
    /\ duration' = clock' - start
    /\ UNCHANGED <<fexc, robot_connected, host_open, start, loop_start_time,
                   last_cmd_time, now, watchdog_active, f_observation>>
    /\ UNCHANGED <<zmqVars, clientVars, histVars>>

\* KeyboardInterrupt inside the try block: caught, then the finally clause.
KeyboardInterrupt ==
    /\ fpc \in InTry
    /\ fpc' = "finally_robot"
    /\ fexc' = "kbint"
    /\ f_observation' = NoObservation
    /\ UNCHANGED <<robot_connected, host_open, clock, start, duration, loop_start_time,
                   last_cmd_time, now, watchdog_active>>
    /\ UNCHANGED <<zmqVars, clientVars, histVars>>

\* finally: robot.disconnect(), which may raise; host.disconnect() comes after it.
FinallyRobot(errors) ==
    /\ fpc = "finally_robot"
    /\ \E raises \in errors :
         IF raises
           THEN fpc' = "raised" /\ fexc' = "error" /\ robot_connected' = robot_connected
           ELSE fpc' = "finally_host" /\ fexc' = fexc /\ robot_connected' = FALSE
    /\ UNCHANGED <<host_open, clock, start, duration, loop_start_time, last_cmd_time,
                   now, watchdog_active, f_observation>>
    /\ UNCHANGED <<zmqVars, clientVars, histVars>>

\* SO100FollowerServer.disconnect: _running = False, the discovery socket, the
\* observation socket, the command socket, the context.  Then main returns, or
\* the exception that left the loop goes on.
HostDisconnect ==
    /\ fpc = "finally_host"
    /\ host_open' = {}
    /\ fpc' = IF fexc = "error" THEN "raised" ELSE "done"
    /\ cmd_link' = FALSE
    /\ obs_link' = FALSE
    /\ s_cmd_pipe' = <<>>
    /\ s_obs_pipe' = <<>>
    /\ d_running' = FALSE
    /\ d_pc' \in IF d_pc = "recv" THEN {"recv", "ended"} ELSE {d_pc}
    /\ UNCHANGED <<fexc, robot_connected, clock, start, duration, loop_start_time,
                   last_cmd_time, now, watchdog_active, f_observation>>
    /\ UNCHANGED <<c_cmd_pipe, c_obs_pipe, clientVars, histVars>>
    /\ UNCHANGED <<d_inbox, d_sent, d_received, d_replies, d_failed>>

\* ------------------------------------------------------- ZeroMQ I/O threads
ServerBound == fpc \in InTry \cup {"finally_robot", "finally_host"}

\* The client's PUSH socket reaches the server's bound PULL socket.
CmdLinkUp ==
    /\ ClientSocketsOpen /\ ServerBound /\ ~cmd_link
    /\ cmd_link' = TRUE
    /\ UNCHANGED <<obs_link, c_cmd_pipe, s_cmd_pipe, s_obs_pipe, c_obs_pipe>>
    /\ UNCHANGED <<followerVars, clientVars, histVars>>

\* The client's PULL socket reaches the server's bound PUSH socket, which
\* gets its pipe to this peer.
ObsLinkUp ==
    /\ ClientSocketsOpen /\ ServerBound /\ ~obs_link
    /\ obs_link' = TRUE
    /\ UNCHANGED <<cmd_link, c_cmd_pipe, s_cmd_pipe, s_obs_pipe, c_obs_pipe>>
    /\ UNCHANGED <<followerVars, clientVars, histVars>>

\* One Command leaves the client's pipe and is written to the server's.
CmdTransfer ==
    /\ cmd_link /\ c_cmd_pipe # <<>>
    /\ s_cmd_pipe' = ServerCmdPipeWrite(s_cmd_pipe, Head(c_cmd_pipe))
    /\ c_cmd_pipe' = Tail(c_cmd_pipe)
    /\ UNCHANGED <<cmd_link, obs_link, s_obs_pipe, c_obs_pipe>>
    /\ UNCHANGED <<followerVars, clientVars, histVars>>

\* One Observation leaves the server's pipe and is written to the client's.
ObsTransfer ==
    /\ obs_link /\ s_obs_pipe # <<>>
    /\ c_obs_pipe' = ClientObsPipeWrite(c_obs_pipe, Head(s_obs_pipe))
    /\ s_obs_pipe' = Tail(s_obs_pipe)
    /\ obs_readable' = TRUE
    /\ UNCHANGED <<cmd_link, obs_link, c_cmd_pipe, s_cmd_pipe>>
    /\ UNCHANGED <<followerVars, clientVars>>
    /\ UNCHANGED <<cmd_seq, obs_seq, applied, superseded, sends_since_tick,
                   obs_since_get, drained, trip_warnings, nocmd_warnings, trips,
                   cmd_error, unlinked, last_poll>>

\* ---------------------------------------------------- SO100FollowerClient
\* connect(), up to the poll: raises when already connected or when discovery
\* finds no server; otherwise the context and both sockets are created.
Connect(max_connects) ==
    /\ cpc \in {"idle", "failed"} /\ ~is_connected
    /\ connects < max_connects
    /\ connects' = connects + 1
    /\ \E discovered \in BOOLEAN :
         IF discovered
           THEN /\ cpc' = "polling"
                /\ c_cmd_pipe' = <<>>
                /\ c_obs_pipe' = <<>>
                /\ cmd_link' = FALSE
                /\ obs_link' = FALSE
                /\ \E collected \in {c \in BOOLEAN : c => cpc = "failed"} :
                     c_open' = IF collected THEN c_open ELSE c_open + 1
           ELSE UNCHANGED <<cpc, c_cmd_pipe, c_obs_pipe, cmd_link, obs_link, c_open>>
    /\ UNCHANGED <<is_connected, last_observation, c_rejected>>
    /\ UNCHANGED <<s_cmd_pipe, s_obs_pipe>>
    /\ UNCHANGED <<followerVars, histVars>>

\* ConnectPoll taking the session as connected without a readable Observation.
ConnectPollNoWait ==
    /\ cpc = "polling"
    /\ cpc' = "connected" /\ is_connected' = TRUE
    /\ UNCHANGED <<last_observation, connects, c_open, c_rejected>>
    /\ UNCHANGED <<followerVars, zmqVars, histVars>>

\* poller.poll(connect_timeout_s * 1000) on the observation socket: readable,
\* and _is_connected = True; or the timeout with nothing to read, and
\* DeviceNotConnectedError with the sockets left as they are.
ConnectPoll ==
    /\ cpc = "polling"
    /\ IF c_obs_pipe # <<>>
         THEN cpc' = "connected" /\ is_connected' = TRUE
         ELSE cpc' = "failed" /\ is_connected' = FALSE
    /\ UNCHANGED <<last_observation, connects, c_open, c_rejected>>
    /\ UNCHANGED <<followerVars, zmqVars, histVars>>

\* send_action: zmq_cmd_socket.send_string(json.dumps(action)).
SendAction(max_cmds) ==
    /\ is_connected
    /\ cmd_seq < max_cmds
    /\ cmd_seq' = cmd_seq + 1
    /\ c_cmd_pipe' = ClientCmdPipeWrite(c_cmd_pipe, cmd_seq + 1)
    /\ sends_since_tick' = sends_since_tick + 1
    /\ superseded' = IF sends_since_tick >= 1 THEN superseded \cup {cmd_seq}
                                             ELSE superseded
    /\ unlinked' = IF cmd_link THEN unlinked ELSE unlinked \cup {cmd_seq + 1}
    /\ UNCHANGED <<cmd_link, obs_link, s_cmd_pipe, s_obs_pipe, c_obs_pipe>>
    /\ UNCHANGED <<followerVars, clientVars>>
    /\ UNCHANGED <<obs_seq, applied, obs_since_get, drained, obs_readable,
                   trip_warnings, nocmd_warnings, trips, cmd_error, last_poll>>

\* PollAndGetLatestMessage with one recv_string instead of the loop.
PollSingleRecv(pipe) == IF pipe = <<>> THEN NoObservation ELSE Head(pipe)

\* _poll_and_get_latest_message: None when the poll times out with nothing to
\* read; otherwise recv_string(NOBLOCK) until zmq.Again, keeping the last.
PollAndGetLatestMessage(pipe) == IF pipe = <<>> THEN NoObservation ELSE Last(pipe)

\* json.loads(msg) raising JSONDecodeError: the message is no JSON text.
JsonDecodeFails(msg) == msg.cam = "not_json"

\* recv_string's msg.decode("utf-8") failing: the positions of the messages
\* of a pipe whose bytes are no UTF-8 text, and the first of them.
NotUtf8(pipe) == {i \in 1..Len(pipe) : pipe[i].cam = "xff"}
FirstNotUtf8(pipe) == CHOOSE i \in NotUtf8(pipe) : \A j \in NotUtf8(pipe) : i <= j

\* The camera loop leaving the payload in the field when no frame comes of it.
DecodeCamerasKeepsField(obs, decodes) ==
    [obs EXCEPT !.cam = IF obs.cam = "b64" /\ decodes THEN "frame" ELSE obs.cam]

\* _decode_image and the camera loop of get_observation: the frame replaces
\* the field, or the field is dropped when it is missing, empty or undecodable.
DecodeCameras(obs, decodes) ==
    LET image_b64 == IF obs.cam = "absent" THEN "" ELSE obs.cam
    IN  [obs EXCEPT !.cam = IF image_b64 = "b64" /\ decodes THEN "frame"
                                                            ELSE "absent"]

\* get_observation: the poll and the drain of the socket, json.loads, the
\* camera loop.  recv_string decodes each message as UTF-8 after taking it
\* from the socket: on bytes that are no UTF-8 text it raises
\* UnicodeDecodeError out of get_observation, with the messages behind that
\* one left on the socket.
GetObservation ==
    /\ is_connected
    /\ IF NotUtf8(c_obs_pipe) # {}
         THEN /\ drained' = FirstNotUtf8(c_obs_pipe)
              /\ c_obs_pipe' = SubSeq(c_obs_pipe, FirstNotUtf8(c_obs_pipe) + 1,
                                      Len(c_obs_pipe))
              /\ last_observation' = last_observation
              /\ last_poll' = "raised"
         ELSE /\ drained' = Len(c_obs_pipe)
              /\ c_obs_pipe' = <<>>
              /\ LET msg == PollAndGetLatestMessage(c_obs_pipe)
                 IN IF msg = NoObservation
                      THEN /\ last_observation' = last_observation
                           /\ last_poll' = "timeout"
                      ELSE IF JsonDecodeFails(msg)
                      THEN /\ last_observation' = last_observation
                           /\ last_poll' = "not_json"
                      ELSE /\ \E decodes \in BOOLEAN :
                                last_observation' = DecodeCameras(msg, decodes)
                           /\ last_poll' = "decoded"
    /\ obs_since_get' = 0
    /\ UNCHANGED <<cpc, is_connected, connects, c_open, c_rejected>>
    /\ UNCHANGED <<cmd_link, obs_link, c_cmd_pipe, s_cmd_pipe, s_obs_pipe>>
    /\ UNCHANGED followerVars
    /\ UNCHANGED <<cmd_seq, obs_seq, applied, superseded, sends_since_tick,
                   obs_readable, trip_warnings, nocmd_warnings, trips, cmd_error,
                   unlinked>>

\* disconnect: both sockets closed, the context terminated (which waits for
\* the Commands still in the PUSH pipe to leave), _is_connected = False.
Disconnect ==
    /\ is_connected
    /\ c_cmd_pipe = <<>>
    /\ is_connected' = FALSE
    /\ cpc' = "idle"
    /\ cmd_link' = FALSE
    /\ obs_link' = FALSE
    /\ c_obs_pipe' = <<>>
    /\ s_obs_pipe' = <<>>
    /\ UNCHANGED <<c_cmd_pipe, s_cmd_pipe>>
    /\ c_open' = c_open - 1
    /\ UNCHANGED <<last_observation, connects, c_rejected>>
    /\ UNCHANGED <<followerVars, histVars>>

\* A call refused by its check of _is_connected: the error is raised before
\* the method touches a socket, the context or any other attribute.
Rejected(call, error) ==
    /\ c_rejected' = [call |-> call, error |-> error]
    /\ UNCHANGED <<cpc, is_connected, last_observation, connects, c_open>>
    /\ UNCHANGED <<followerVars, zmqVars, histVars>>

\* connect on a connected client
ConnectRejected ==
    is_connected /\ Rejected("connect", "DeviceAlreadyConnectedError")

\* get_observation on a client that is not connected
GetObservationRejected ==
    ~is_connected /\ cpc # "polling"
        /\ Rejected("get_observation", "DeviceNotConnectedError")

\* send_action on a client that is not connected
SendActionRejected ==
    ~is_connected /\ cpc # "polling"
        /\ Rejected("send_action", "DeviceNotConnectedError")

\* disconnect on a client that is not connected
DisconnectRejected ==
    ~is_connected /\ cpc # "polling"
        /\ Rejected("disconnect", "DeviceNotConnectedError")

\* ------------------------------------------------------------- Profile A
EmptyObservation == [seq |-> 0, cam |-> "absent"]

\* main after robot.connect() has succeeded; a client object just constructed.
InitProfileA(run) ==
    /\ IdleB
    /\ cfg = [connection_time_s |-> run, watchdog_timeout_ms |-> WatchdogTimeout]
    /\ fpc = "host_init" /\ fexc = "none"
    /\ robot_connected = TRUE
    /\ host_open = {}
    /\ clock = 0 /\ start = 0 /\ duration = 0 /\ loop_start_time = 0
    /\ last_cmd_time = 0 /\ now = 0
    /\ watchdog_active = FALSE
    /\ f_observation = NoObservation
    /\ cmd_link = FALSE /\ obs_link = FALSE
    /\ c_cmd_pipe = <<>> /\ s_cmd_pipe = <<>> /\ s_obs_pipe = <<>> /\ c_obs_pipe = <<>>
    /\ cpc = "idle" /\ is_connected = FALSE
    /\ last_observation = EmptyObservation
    /\ connects = 0 /\ c_open = 0 /\ c_rejected = NoRejection
    /\ cmd_seq = 0 /\ obs_seq = 0
    /\ applied = {} /\ superseded = {}
    /\ sends_since_tick = 0 /\ obs_since_get = 0 /\ drained = 0
    /\ obs_readable = FALSE
    /\ trip_warnings = 0 /\ nocmd_warnings = 0 /\ trips = 0
    /\ cmd_error = FALSE /\ unlinked = {} /\ last_poll = "none"
    /\ d_pc = "off" /\ d_running = FALSE /\ d_inbox = <<>> /\ d_sent = 0
    /\ d_received = <<>> /\ d_replies = {} /\ d_failed = {}

\* The environment's inputs: what HostInit, robot.get_observation, imencode,
\* the sends and robot.disconnect may answer.
InitOutcomes == {"ok", "cmd_bind_fails", "obs_bind_fails", "discovery_bind_fails"}
ObserveOutcomes == {"encoded", "encode_fails", "raises"}

\* Profile A, the exchange of Commands and Observations: a follower whose
\* calls all succeed at once and that nobody interrupts, with the client.
InitA == InitProfileA(RunA)

NextA ==
    \/ HostInit({"ok"}) /\ OnlyHost
    \/ LoopCheck /\ OnlyA
    \/ TickRecv({FALSE}) /\ OnlyA
    \/ TickWatchdog /\ OnlyA
    \/ TickObserve({0}, {"encoded", "encode_fails"}) /\ OnlyA
    \/ TickSend({FALSE}) /\ OnlyA
    \/ TickSleep /\ OnlyA
    \/ FinallyRobot({FALSE}) /\ OnlyA
    \/ HostDisconnect /\ OnlyHost
    \/ CmdLinkUp /\ OnlyA
    \/ ObsLinkUp /\ OnlyA
    \/ CmdTransfer /\ OnlyA
    \/ ObsTransfer /\ OnlyA
    \/ Connect(MaxConnects) /\ OnlyA
    \/ ConnectPoll /\ OnlyA
    \/ SendAction(MaxCmdsA) /\ OnlyA
    \/ GetObservation /\ OnlyA
    \/ Disconnect /\ OnlyA

SpecA == InitA /\ [][NextA]_vars

\* Profile A, the watchdog: a longer run in which the work of a tick takes
\* time and applying a Command may fail; the client connects and sends.
InitW == InitProfileA(RunW)

NextW ==
    \/ HostInit({"ok"}) /\ OnlyHost
    \/ LoopCheck /\ OnlyA
    \/ TickRecv(BOOLEAN) /\ OnlyA
    \/ TickWatchdog /\ OnlyA
    \/ TickObserve(0..MaxWork, {"encoded"}) /\ OnlyA
    \/ TickSend({FALSE}) /\ OnlyA
    \/ TickSleep /\ OnlyA
    \/ FinallyRobot({FALSE}) /\ OnlyA
    \/ HostDisconnect /\ OnlyHost
    \/ CmdLinkUp /\ OnlyA
    \/ ObsLinkUp /\ OnlyA
    \/ CmdTransfer /\ OnlyA
    \/ ObsTransfer /\ OnlyA
    \/ Connect(MaxConnects) /\ OnlyA
    \/ ConnectPoll /\ OnlyA
    \/ SendAction(MaxCmdsW) /\ OnlyA

SpecW == InitW /\ [][NextW]_vars

\* Profile A, how the follower program ends: every outcome of every call, and
\* interrupts, in a short run.
InitT == InitProfileA(RunT)

NextT ==
    \/ HostInit(InitOutcomes) /\ OnlyHost
    \/ LoopCheck /\ OnlyA
    \/ TickRecv(BOOLEAN) /\ OnlyA
    \/ TickWatchdog /\ OnlyA
    \/ TickObserve(0..MaxWork, ObserveOutcomes) /\ OnlyA
    \/ TickSend(BOOLEAN) /\ OnlyA
    \/ TickSleep /\ OnlyA
    \/ KeyboardInterrupt /\ OnlyA
    \/ FinallyRobot(BOOLEAN) /\ OnlyA
    \/ HostDisconnect /\ OnlyHost
    \/ CmdLinkUp /\ OnlyA
    \/ ObsLinkUp /\ OnlyA
    \/ CmdTransfer /\ OnlyA
    \/ ObsTransfer /\ OnlyA
    \/ Connect(MaxConnects) /\ OnlyA
    \/ ConnectPoll /\ OnlyA
    \/ SendAction(MaxCmdsT) /\ OnlyA

SpecT == InitT /\ [][NextT]_vars

\* Profile A, the client alone with whatever program is bound to the
\* observation port: the peer writes messages of its choice to the client's
\* PULL socket, or none at all.
MaxPeerMsgs == 2
MaxConnectsC == 2

\* What a message of the peer holds: an Observation whose camera field is an
\* encoded frame, is empty or is missing, a text that is no JSON, or bytes
\* that are no UTF-8 text.
PeerPayloads == {"b64", "", "absent", "not_json", "xff"}

PeerSend(max_msgs) ==
    /\ ClientSocketsOpen
    /\ obs_seq < max_msgs
    /\ obs_seq' = obs_seq + 1
    /\ \E payload \in PeerPayloads :
         c_obs_pipe' = ClientObsPipeWrite(c_obs_pipe,
                                          [seq |-> obs_seq + 1, cam |-> payload])
    /\ obs_since_get' = obs_since_get + 1
    /\ obs_readable' = TRUE
    /\ UNCHANGED <<cmd_link, obs_link, c_cmd_pipe, s_cmd_pipe, s_obs_pipe>>
    /\ UNCHANGED <<followerVars, clientVars>>
    /\ UNCHANGED <<cmd_seq, applied, superseded, sends_since_tick, drained,
                   trip_warnings, nocmd_warnings, trips, cmd_error, unlinked,
                   last_poll>>

InitC == InitProfileA(RunT)

NextC ==
    \/ Connect(MaxConnectsC) /\ OnlyA
    \/ ConnectPoll /\ OnlyA
    \/ PeerSend(MaxPeerMsgs) /\ OnlyA
    \/ GetObservation /\ OnlyA
    \/ Disconnect /\ OnlyA

SpecC == InitC /\ [][NextC]_vars

\* Profile A, the leader's client driven by any sequence of its four calls,
\* with a peer bound on the observation port.
MaxConnectsS == 2
MaxCmdsS == 1
MaxPeerMsgsS == 1

InitS == InitProfileA(RunT)

NextS ==
    \/ Connect(MaxConnectsS) /\ OnlyA
    \/ ConnectPoll /\ OnlyA
    \/ PeerSend(MaxPeerMsgsS) /\ OnlyA
    \/ GetObservation /\ OnlyA
    \/ SendAction(MaxCmdsS) /\ OnlyA
    \/ Disconnect /\ OnlyA
    \/ ConnectRejected /\ OnlyA
    \/ GetObservationRejected /\ OnlyA
    \/ SendActionRejected /\ OnlyA
    \/ DisconnectRejected /\ OnlyA

SpecS == InitS /\ [][NextS]_vars

\* Profile A, the follower with its discovery thread and the hosts that send
\* datagrams to the discovery port.
MaxDatagrams == 2

\* data == b"LEROBOT_DISCOVERY", and any other payload
DiscoveryToken == "LEROBOT_DISCOVERY"
DatagramPayloads == {DiscoveryToken, "OTHER"}
Senders == {"addr1", "addr2"}
\* str(self.port_zmq_cmd).encode()
CmdPortText == "5555"

\* The discovery port takes datagrams while the socket is open; a recvfrom
\* that is blocked when close() is called may keep the socket alive until it
\* returns.
DiscoveryPortBound == "_discovery_socket" \in host_open \/ d_pc = "recv"

DatagramArrives(max_datagrams) ==
    /\ DiscoveryPortBound
    /\ d_sent < max_datagrams
    /\ d_sent' = d_sent + 1
    /\ \E sender \in Senders, payload \in DatagramPayloads :
         d_inbox' = Append(d_inbox, [id |-> d_sent + 1, sender |-> sender,
                                     payload |-> payload])
    /\ UNCHANGED <<d_pc, d_running, d_received, d_replies, d_failed>>
    /\ UNCHANGED <<followerVars, zmqVars, clientVars, histVars>>

\* One round of _discovery_loop: recvfrom returns a datagram; the token is
\* answered with sendto, and an OSError of either call breaks the loop.  Once
\* disconnect() has run, the token's sendto raises on the closed socket and
\* any other payload meets _running = False: the thread ends.
BeaconRecv(send_errors) ==
    /\ d_pc = "recv"
    /\ d_inbox # <<>>
    /\ d_inbox' = Tail(d_inbox)
    /\ LET m == Head(d_inbox)
       IN  IF "_discovery_socket" \in host_open
             THEN /\ d_received' = Append(d_received, m)
                  /\ IF m.payload = DiscoveryToken
                       THEN \E fails \in send_errors :
                              IF fails
                                THEN /\ d_failed' = d_failed \cup {m.id}
                                     /\ d_pc' = "ended"
                                     /\ UNCHANGED d_replies
                                ELSE /\ d_replies' = d_replies \cup
                                          {[id |-> m.id, to |-> m.sender,
                                            data |-> CmdPortText]}
                                     /\ UNCHANGED <<d_pc, d_failed>>
                       ELSE UNCHANGED <<d_pc, d_replies, d_failed>>
             ELSE /\ d_pc' = "ended"
                  /\ UNCHANGED <<d_received, d_replies, d_failed>>
    /\ UNCHANGED <<d_running, d_sent>>
    /\ UNCHANGED <<followerVars, zmqVars, clientVars, histVars>>

InitD == InitProfileA(RunT)

NextD ==
    \/ HostInit({"ok"}) /\ OnlyHost
    \/ LoopCheck /\ OnlyA
    \/ TickRecv({FALSE}) /\ OnlyA
    \/ TickWatchdog /\ OnlyA
    \/ TickObserve({0}, {"encoded"}) /\ OnlyA
    \/ TickSend({FALSE}) /\ OnlyA
    \/ TickSleep /\ OnlyA
    \/ FinallyRobot({FALSE}) /\ OnlyA
    \/ HostDisconnect /\ OnlyHost
    \/ DatagramArrives(MaxDatagrams) /\ OnlyHost
    \/ BeaconRecv(BOOLEAN) /\ OnlyHost

SpecD == InitD /\ [][NextD]_vars

\* ============================================================= Profile B
\* scripts/follower_server.py, scripts/leader_client.py and
\* common/network_utils.py over TCP.

\* Profile A not started: the state of its variables in the specification of
\* Profile B.
IdleA ==
    /\ cfg = [connection_time_s |-> 0, watchdog_timeout_ms |-> 0]
    /\ fpc = "off" /\ fexc = "none"
    /\ robot_connected = FALSE
    /\ host_open = {}
    /\ clock = 0 /\ start = 0 /\ duration = 0 /\ loop_start_time = 0
    /\ last_cmd_time = 0 /\ now = 0
    /\ watchdog_active = FALSE
    /\ f_observation = NoObservation
    /\ cmd_link = FALSE /\ obs_link = FALSE
    /\ c_cmd_pipe = <<>> /\ s_cmd_pipe = <<>> /\ s_obs_pipe = <<>> /\ c_obs_pipe = <<>>
    /\ cpc = "off" /\ is_connected = FALSE
    /\ last_observation = EmptyObservation
    /\ connects = 0 /\ c_open = 0 /\ c_rejected = NoRejection
    /\ cmd_seq = 0 /\ obs_seq = 0
    /\ applied = {} /\ superseded = {}
    /\ sends_since_tick = 0 /\ obs_since_get = 0 /\ drained = 0
    /\ obs_readable = FALSE
    /\ trip_warnings = 0 /\ nocmd_warnings = 0 /\ trips = 0
    /\ cmd_error = FALSE /\ unlinked = {} /\ last_poll = "none"
    /\ d_pc = "off" /\ d_running = FALSE /\ d_inbox = <<>> /\ d_sent = 0
    /\ d_received = <<>> /\ d_replies = {} /\ d_failed = {}

\* ------------------------------------------------------------- the bytes
\* A JSON document is two bytes on the wire, the opening brace and the rest;
\* a line is a body followed by the newline byte.
NL == "nl"
Line(v) == <<"{", v, NL>>
\* json.dumps(handshake).encode() + b"\n"
HandshakeLine == Line("ready")
\* json.dumps(action).encode() + b"\n" of the k-th action
CommandName == <<"c1", "c2", "c3">>
CommandLine(k) == Line(CommandName[k])
\* lines that are no JSON document: a truncated one, an empty one, and one
\* that is no UTF-8 text
TruncatedLine == <<"{", NL>>
EmptyLine == <<NL>>
NonUtf8Line == <<"xff", NL>>

\* b"\n" in buffer
HasNewline(buffer) == \E i \in 1..Len(buffer) : buffer[i] = NL
FirstNewline(buffer) ==
    CHOOSE i \in 1..Len(buffer) :
        buffer[i] = NL /\ \A j \in 1..(i - 1) : buffer[j] # NL
\* buffer.split(b"\n", 1)
SplitLine(buffer) ==
    [line |-> SubSeq(buffer, 1, FirstNewline(buffer) - 1),
     rest |-> SubSeq(buffer, FirstNewline(buffer) + 1, Len(buffer))]
\* line.decode(): UnicodeDecodeError on bytes that are no UTF-8 text
DecodeFails(line) == \E i \in 1..Len(line) : line[i] = "xff"
\* json.loads(text): the document's value, or JSONDecodeError
JsonLoads(line) ==
    IF Len(line) = 2 /\ line[1] = "{"
    THEN [ok |-> TRUE, value |-> line[2]]
    ELSE [ok |-> FALSE, value |-> "JSONDecodeError"]

\* ------------------------------------------------------------ the sockets
\* server.listen(1): the kernel completes connections while the queue holds
\* no more than the backlog.
Backlog == 1
Listening == b_server = "listening" /\ b_pc \notin {"done", "raised"}
QueueHasRoom == Len(accept_queue) <= Backlog
Queued == {accept_queue[i] : i \in 1..Len(accept_queue)}
\* server.close(): the connections still waiting in the queue are reset
ServerClose(st) == [c \in Conns |-> IF c \in Queued THEN "reset" ELSE st[c]]
\* conn.close()
ConnClose(st) == [st EXCEPT ![b_conn] = "closed"]
\* The follower process ends: the system closes the sockets it left open.
ProcessExit(st) == ServerClose(IF b_conn = "none" THEN st ELSE ConnClose(st))

\* --------------------------------------------------- follower_server.main
\* lines 35-44: the listening socket.  socket.socket() or bind()/listen() may
\* raise OSError; the handler disconnects the robot and returns.
FollowerBind(outcomes) ==
    /\ b_pc = "bind"
    /\ \E o \in outcomes :
         \/ /\ o = "ok"
            /\ b_server' = "listening"
            /\ b_pc' = "accept"
            /\ UNCHANGED b_robot_connected
         \/ /\ o = "socket_fails"
            /\ b_server' = "none"
            /\ b_robot_connected' = FALSE
            /\ b_pc' = "done"
         \/ /\ o = "bind_fails"
            /\ b_server' = "open"
            /\ b_robot_connected' = FALSE
            /\ b_pc' = "done"
    /\ UNCHANGED <<netVars, lVars, b_exc, b_conn, b_conn_open, b_buffer, b_applied,
                   b_hs_sent, b_recvs>>

\* A follower that enters its read loop right after accept.
FollowerAcceptNoHandshake ==
    /\ b_pc = "accept"
    /\ accept_queue # <<>>
    /\ b_conn' = Head(accept_queue)
    /\ b_conn_open' = TRUE
    /\ accept_queue' = Tail(accept_queue)
    /\ sstat' = [sstat EXCEPT ![Head(accept_queue)] = "accepted"]
    /\ b_pc' = "read"
    /\ UNCHANGED <<faddr, others_open, copen, wire_up, wire_down, svc_lines, str_lines,
                   lVars, b_exc, b_robot_connected, b_server, b_buffer, b_applied,
                   b_hs_sent, b_recvs>>

\* line 47: server.accept() takes the first completed connection.
FollowerAccept ==
    /\ b_pc = "accept"
    /\ accept_queue # <<>>
    /\ b_conn' = Head(accept_queue)
    /\ b_conn_open' = TRUE
    /\ accept_queue' = Tail(accept_queue)
    /\ sstat' = [sstat EXCEPT ![Head(accept_queue)] = "accepted"]
    /\ b_pc' = "handshake"
    /\ UNCHANGED <<faddr, others_open, copen, wire_up, wire_down, svc_lines, str_lines,
                   lVars, b_exc, b_robot_connected, b_server, b_buffer, b_applied,
                   b_hs_sent, b_recvs>>

\* lines 50-58: the handshake.  sendall can fail only once the peer has gone;
\* bytes sent to a closed peer are lost.
FollowerHandshake(errors) ==
    /\ b_pc = "handshake"
    /\ \E err \in errors :
         /\ err => ~copen[b_conn]
         /\ IF err
            THEN /\ sstat' = ServerClose(ConnClose(sstat))
                 /\ accept_queue' = <<>>
                 /\ b_conn_open' = FALSE
                 /\ b_server' = "closed"
                 /\ b_robot_connected' = FALSE
                 /\ b_pc' = "done"
                 /\ UNCHANGED <<wire_down, b_hs_sent>>
            ELSE /\ wire_down' = IF copen[b_conn]
                                 THEN [wire_down EXCEPT ![b_conn] = @ \o HandshakeLine]
                                 ELSE wire_down
                 /\ b_hs_sent' = b_hs_sent + 1
                 /\ b_pc' = "read"
                 /\ UNCHANGED <<sstat, accept_queue, b_conn_open, b_server,
                                b_robot_connected>>
    /\ UNCHANGED <<faddr, others_open, copen, wire_up, svc_lines, str_lines, lVars,
                   b_exc, b_conn, b_buffer, b_applied, b_recvs>>

\* The Commands of a run of bytes: the values of its newline-terminated lines
\* that are not empty, are UTF-8 text and are JSON documents, in order.
RECURSIVE WellFormedLines(_)
WellFormedLines(bytes) ==
    IF ~HasNewline(bytes) THEN <<>>
    ELSE LET line == SplitLine(bytes).line
             rest == SplitLine(bytes).rest
         IN  IF line = <<>> \/ DecodeFails(line) \/ ~JsonLoads(line).ok
             THEN WellFormedLines(rest)
             ELSE <<JsonLoads(line).value>> \o WellFormedLines(rest)

\* The bytes after the last newline: an incomplete last line.
RECURSIVE IncompleteTail(_)
IncompleteTail(bytes) ==
    IF ~HasNewline(bytes) THEN bytes ELSE IncompleteTail(SplitLine(bytes).rest)

RECURSIVE ProcessLines(_, _)
\* lines 74-88: the complete lines of the buffer, in order.  An empty line and
\* a line that is no JSON document are skipped; a line that is no UTF-8 text
\* raises out of the loop; every other document goes to robot.send_action,
\* whose own exceptions are logged.
ProcessLines(buffer, done) ==
    IF ~HasNewline(buffer)
    THEN [buffer |-> buffer, applied |-> done, raised |-> FALSE]
    ELSE LET line == SplitLine(buffer).line
             rest == SplitLine(buffer).rest
         IN  IF line = <<>> THEN ProcessLines(rest, done)
             ELSE IF DecodeFails(line)
                  THEN [buffer |-> rest, applied |-> done, raised |-> TRUE]
             ELSE IF ~JsonLoads(line).ok THEN ProcessLines(rest, done)
             ELSE ProcessLines(rest, Append(done, JsonLoads(line).value))

\* lines 62-88: one turn of the read loop.  recv returns a non-empty prefix of
\* the bytes in flight; with none in flight and the peer gone it returns b""
\* or raises OSError, and the loop breaks either way.
FollowerRecv ==
    /\ b_pc = "read"
    /\ \/ /\ wire_up[b_conn] # <<>>
          /\ \E n \in 1..Len(wire_up[b_conn]) :
               LET data == SubSeq(wire_up[b_conn], 1, n)
                   r == ProcessLines(b_buffer \o data, b_applied)
               IN  /\ wire_up' = [wire_up EXCEPT
                                    ![b_conn] = SubSeq(@, n + 1, Len(@))]
                   /\ b_buffer' = r.buffer
                   /\ b_applied' = r.applied
                   /\ b_pc' = IF r.raised THEN "finally" ELSE "read"
                   /\ b_exc' = IF r.raised THEN "error" ELSE b_exc
       \/ /\ wire_up[b_conn] = <<>>
          /\ ~copen[b_conn]
          /\ b_pc' = "finally"
          /\ UNCHANGED <<wire_up, b_buffer, b_applied, b_exc>>
    /\ b_recvs' = b_recvs + 1
    /\ UNCHANGED <<faddr, others_open, accept_queue, sstat, copen, wire_down,
                   svc_lines, str_lines, lVars, b_robot_connected, b_server, b_conn,
                   b_conn_open, b_hs_sent>>

\* KeyboardInterrupt: caught only by the try of the read loop (line 89);
\* anywhere before, it leaves main at once.
FollowerInterrupt ==
    /\ b_pc \in {"bind", "accept", "handshake", "read"}
    /\ b_exc' = "kbint"
    /\ IF b_pc = "read"
       THEN /\ b_pc' = "finally"
            /\ UNCHANGED <<sstat, accept_queue>>
       ELSE /\ b_pc' = "raised"
            /\ sstat' = ProcessExit(sstat)
            /\ accept_queue' = <<>>
    /\ UNCHANGED <<faddr, others_open, copen, wire_up, wire_down, svc_lines, str_lines,
                   lVars, b_robot_connected, b_server, b_conn, b_conn_open, b_buffer,
                   b_applied, b_hs_sent, b_recvs>>

\* lines 91-94: conn.close(), server.close(), robot.disconnect(), which may
\* raise.
FollowerFinally(errors) ==
    /\ b_pc = "finally"
    /\ sstat' = ServerClose(ConnClose(sstat))
    /\ accept_queue' = <<>>
    /\ b_conn_open' = FALSE
    /\ b_server' = "closed"
    /\ \E err \in errors :
         /\ b_robot_connected' = err
         /\ b_pc' = IF err \/ b_exc = "error" THEN "raised" ELSE "done"
    /\ UNCHANGED <<faddr, others_open, copen, wire_up, wire_down, svc_lines, str_lines,
                   lVars, b_exc, b_conn, b_buffer, b_applied, b_hs_sent, b_recvs>>

\* ------------------------------------------------------- discover_host
\* The hosts of the scanned range, in the order of net.hosts().
NumHosts == 2
Hosts == 1..NumHosts

\* create_connection((ip, port)) succeeds
HostAccepts(ip) ==
    \/ ip = faddr /\ Listening /\ QueueHasRoom
    \/ ip \in others_open

\* lines 20-30: the range is given, or inferred from the host name, which
\* may fail; None is returned then and main raises.
DiscoverStart(resolves) ==
    /\ l_pc = "discover"
    /\ \E ok \in resolves :
         /\ IF ok
            THEN l_pc' = "scan" /\ l_scan' = 1
            ELSE l_pc' = "raised" /\ UNCHANGED l_scan
    /\ UNCHANGED <<netVars, bVars, l_ip, l_probed, l_sock, l_buffer, l_handshake,
                   l_sent, l_teleop>>

\* The scan without the return inside the loop: every host is probed and the
\* last one that accepted is returned.
DiscoverProbeNoStop ==
    /\ l_pc = "scan"
    /\ IF l_scan > NumHosts
       THEN /\ l_pc' = IF l_ip = 0 THEN "raised" ELSE "connect"
            /\ UNCHANGED <<l_scan, l_ip, l_probed, accept_queue, sstat>>
       ELSE /\ l_probed' = Append(l_probed, l_scan)
            /\ l_scan' = l_scan + 1
            /\ l_pc' = l_pc
            /\ IF HostAccepts(l_scan)
               THEN /\ l_ip' = l_scan
                    /\ IF l_scan = faddr
                       THEN /\ accept_queue' = Append(accept_queue, "probe")
                            /\ sstat' = [sstat EXCEPT !["probe"] = "queued"]
                       ELSE UNCHANGED <<accept_queue, sstat>>
               ELSE UNCHANGED <<l_ip, accept_queue, sstat>>
    /\ UNCHANGED <<faddr, others_open, copen, wire_up, wire_down, svc_lines, str_lines,
                   bVars, l_sock, l_buffer, l_handshake, l_sent, l_teleop>>

\* lines 31-40: one host of the scan.  The with block connects and closes at
\* once; the first host that accepts is returned, None after the last.
DiscoverProbe ==
    /\ l_pc = "scan"
    /\ IF l_scan > NumHosts
       THEN /\ l_pc' = "raised"
            /\ UNCHANGED <<l_scan, l_ip, l_probed, accept_queue, sstat>>
       ELSE /\ l_probed' = Append(l_probed, l_scan)
            /\ IF HostAccepts(l_scan)
               THEN /\ l_ip' = l_scan
                    /\ l_pc' = "connect"
                    /\ IF l_scan = faddr
                       THEN /\ accept_queue' = Append(accept_queue, "probe")
                            /\ sstat' = [sstat EXCEPT !["probe"] = "queued"]
                       ELSE UNCHANGED <<accept_queue, sstat>>
                    /\ UNCHANGED l_scan
               ELSE /\ l_scan' = l_scan + 1
                    /\ UNCHANGED <<l_pc, l_ip, accept_queue, sstat>>
    /\ UNCHANGED <<faddr, others_open, copen, wire_up, wire_down, svc_lines, str_lines,
                   bVars, l_sock, l_buffer, l_handshake, l_sent, l_teleop>>

\* --------------------------------------------------- leader_client.main
MaxLeaderCmds == 1

\* lines 40-46: the session connection to the discovered address.
LeaderConnect ==
    /\ l_pc = "connect"
    /\ IF HostAccepts(l_ip)
       THEN /\ l_sock' = "open"
            /\ l_pc' = "handshake"
            /\ copen' = [copen EXCEPT !["session"] = TRUE]
            /\ IF l_ip = faddr
               THEN /\ accept_queue' = Append(accept_queue, "session")
                    /\ sstat' = [sstat EXCEPT !["session"] = "queued"]
               ELSE /\ sstat' = [sstat EXCEPT !["session"] = "accepted"]
                    /\ UNCHANGED accept_queue
       ELSE /\ l_pc' = "raised"
            /\ UNCHANGED <<l_sock, copen, accept_queue, sstat>>
    /\ UNCHANGED <<faddr, others_open, wire_up, wire_down, svc_lines, str_lines, bVars,
                   l_scan, l_ip, l_probed, l_buffer, l_handshake, l_sent, l_teleop>>

\* lines 48-54: one recv of the handshake loop.  b"" from a peer that closed
\* closes the socket and raises; a reset connection raises OSError out of
\* main, which leaves the socket to the system to close.
LeaderRecvHandshake ==
    /\ l_pc = "handshake"
    /\ \/ /\ wire_down["session"] # <<>>
          /\ \E n \in 1..Len(wire_down["session"]) :
               /\ l_buffer' = l_buffer \o SubSeq(wire_down["session"], 1, n)
               /\ wire_down' = [wire_down EXCEPT
                                  !["session"] = SubSeq(@, n + 1, Len(@))]
               /\ l_pc' = IF HasNewline(l_buffer') THEN "parse" ELSE "handshake"
          /\ UNCHANGED <<l_sock, copen>>
       \/ /\ wire_down["session"] = <<>>
          /\ sstat["session"] = "closed"
          /\ l_sock' = "closed"
          /\ copen' = [copen EXCEPT !["session"] = FALSE]
          /\ l_pc' = "raised"
          /\ UNCHANGED <<l_buffer, wire_down>>
       \/ /\ wire_down["session"] = <<>>
          /\ sstat["session"] = "reset"
          /\ l_pc' = "raised"
          /\ copen' = [copen EXCEPT !["session"] = FALSE]
          /\ UNCHANGED <<l_buffer, wire_down, l_sock>>
    /\ UNCHANGED <<faddr, others_open, accept_queue, sstat, wire_up, svc_lines,
                   str_lines, bVars, l_scan, l_ip, l_probed, l_handshake, l_sent,
                   l_teleop>>

\* lines 55-65: the first line of the buffer is decoded, then the
\* teleoperator is made and connected.
LeaderParseHandshake ==
    /\ l_pc = "parse"
    /\ LET line == SplitLine(l_buffer).line
       IN  IF DecodeFails(line)
           THEN /\ l_pc' = "raised"
                /\ copen' = [copen EXCEPT !["session"] = FALSE]
                /\ UNCHANGED <<l_sock, l_handshake, l_teleop>>
           ELSE IF ~JsonLoads(line).ok
           THEN /\ l_sock' = "closed"
                /\ copen' = [copen EXCEPT !["session"] = FALSE]
                /\ l_pc' = "raised"
                /\ UNCHANGED <<l_handshake, l_teleop>>
           ELSE /\ l_handshake' = JsonLoads(line).value
                /\ l_teleop' = TRUE
                /\ l_pc' = "loop"
                /\ UNCHANGED <<l_sock, copen>>
    /\ UNCHANGED <<faddr, others_open, accept_queue, sstat, wire_up, wire_down,
                   svc_lines, str_lines, bVars, l_scan, l_ip, l_probed, l_buffer,
                   l_sent>>

\* lines 68-77: one tick of the teleoperation loop.  sendall can fail only
\* once the peer has gone, and then the loop breaks.
LeaderSend(errors) ==
    /\ l_pc = "loop"
    /\ l_sent < MaxLeaderCmds
    /\ \E err \in errors :
         /\ err => sstat["session"] \in {"closed", "reset"}
         /\ IF err
            THEN /\ l_pc' = "finally"
                 /\ UNCHANGED <<l_sent, wire_up>>
            ELSE /\ l_sent' = l_sent + 1
                 /\ wire_up' = IF l_ip = faddr /\ sstat["session"] \in {"queued", "accepted"}
                               THEN [wire_up EXCEPT
                                       !["session"] = @ \o CommandLine(l_sent + 1)]
                               ELSE wire_up
                 /\ UNCHANGED l_pc
    /\ UNCHANGED <<faddr, others_open, accept_queue, sstat, copen, wire_down,
                   svc_lines, str_lines, bVars, l_scan, l_ip, l_probed, l_sock,
                   l_buffer, l_handshake, l_teleop>>

\* KeyboardInterrupt: caught only by the try of the loop (line 78).
LeaderInterrupt ==
    /\ l_pc \in {"discover", "scan", "connect", "handshake", "parse", "loop"}
    /\ IF l_pc = "loop"
       THEN l_pc' = "finally" /\ UNCHANGED copen
       ELSE l_pc' = "raised" /\ copen' = [copen EXCEPT !["session"] = FALSE]
    /\ UNCHANGED <<faddr, others_open, accept_queue, sstat, wire_up, wire_down,
                   svc_lines, str_lines, bVars, l_scan, l_ip, l_probed, l_sock,
                   l_buffer, l_handshake, l_sent, l_teleop>>

\* lines 80-82: teleop.disconnect(), sock.close().
LeaderFinally ==
    /\ l_pc = "finally"
    /\ l_teleop' = FALSE
    /\ l_sock' = "closed"
    /\ copen' = [copen EXCEPT !["session"] = FALSE]
    /\ l_pc' = "done"
    /\ UNCHANGED <<faddr, others_open, accept_queue, sstat, wire_up, wire_down,
                   svc_lines, str_lines, bVars, l_scan, l_ip, l_probed, l_buffer,
                   l_handshake, l_sent>>

\* ------------------------------------------------- the rest of the network
\* The service behind another host's open port, once the leader is connected
\* to it: it may send a line, and it may close.  What the leader writes to it
\* is read and dropped.
MaxServiceLines == 1
\* a JSON document that carries neither a status nor capabilities, such as {}
EmptyObjectLine == Line("empty_object")
ServiceLines == {HandshakeLine, TruncatedLine, EmptyObjectLine}

ServiceSend ==
    /\ l_ip \in others_open
    /\ sstat["session"] = "accepted"
    /\ svc_lines > 0
    /\ svc_lines' = svc_lines - 1
    /\ \E line \in ServiceLines :
         wire_down' = [wire_down EXCEPT !["session"] = @ \o line]
    /\ UNCHANGED <<faddr, others_open, accept_queue, sstat, copen, wire_up, str_lines,
                   bVars, lVars>>

ServiceClose ==
    /\ l_ip \in others_open
    /\ sstat["session"] = "accepted"
    /\ sstat' = [sstat EXCEPT !["session"] = "closed"]
    /\ UNCHANGED <<faddr, others_open, accept_queue, copen, wire_up, wire_down,
                   svc_lines, str_lines, bVars, lVars>>

\* Another TCP client of the follower's port: it connects, writes lines and
\* closes.
MaxStrangerLines == 2
StrangerLines(k) == {CommandLine(k), TruncatedLine, EmptyLine, NonUtf8Line}

StrangerConnect ==
    /\ sstat["stranger"] = "none"
    /\ Listening /\ QueueHasRoom
    /\ accept_queue' = Append(accept_queue, "stranger")
    /\ sstat' = [sstat EXCEPT !["stranger"] = "queued"]
    /\ copen' = [copen EXCEPT !["stranger"] = TRUE]
    /\ UNCHANGED <<faddr, others_open, wire_up, wire_down, svc_lines, str_lines, bVars,
                   lVars>>

StrangerSend ==
    /\ copen["stranger"]
    /\ sstat["stranger"] \in {"queued", "accepted"}
    /\ str_lines > 0
    /\ str_lines' = str_lines - 1
    /\ \E line \in StrangerLines(MaxStrangerLines - str_lines + 1) :
         wire_up' = [wire_up EXCEPT !["stranger"] = @ \o line]
    /\ UNCHANGED <<faddr, others_open, accept_queue, sstat, copen, wire_down,
                   svc_lines, bVars, lVars>>

StrangerClose ==
    /\ copen["stranger"]
    /\ copen' = [copen EXCEPT !["stranger"] = FALSE]
    /\ UNCHANGED <<faddr, others_open, accept_queue, sstat, wire_up, wire_down,
                   svc_lines, str_lines, bVars, lVars>>

\* ------------------------------------------------------------- Profile B
BindOutcomes == {"ok", "socket_fails", "bind_fails"}

\* The follower after robot.connect() has succeeded and the leader at the
\* start of main, on a network where the follower has any address of the
\* range and any of the other hosts has the port open.
InitB ==
    /\ IdleA
    /\ faddr \in Hosts
    /\ others_open \in SUBSET (Hosts \ {faddr})
    /\ accept_queue = <<>>
    /\ sstat = [c \in Conns |-> "none"]
    /\ copen = [c \in Conns |-> FALSE]
    /\ wire_up = NoBytes /\ wire_down = NoBytes
    /\ svc_lines = MaxServiceLines
    /\ str_lines = MaxStrangerLines
    /\ b_pc = "bind" /\ b_exc = "none" /\ b_robot_connected = TRUE
    /\ b_server = "none" /\ b_conn = "none" /\ b_conn_open = FALSE
    /\ b_buffer = <<>> /\ b_applied = <<>> /\ b_hs_sent = 0 /\ b_recvs = 0
    /\ l_pc = "discover" /\ l_scan = 0 /\ l_ip = 0 /\ l_probed = <<>>
    /\ l_sock = "none" /\ l_buffer = <<>> /\ l_handshake = "none"
    /\ l_sent = 0 /\ l_teleop = FALSE

NextB ==
    \/ FollowerBind(BindOutcomes) /\ OnlyB
    \/ FollowerAccept /\ OnlyB
    \/ FollowerHandshake(BOOLEAN) /\ OnlyB
    \/ FollowerRecv /\ OnlyB
    \/ FollowerInterrupt /\ OnlyB
    \/ FollowerFinally(BOOLEAN) /\ OnlyB
    \/ DiscoverStart(BOOLEAN) /\ OnlyB
    \/ DiscoverProbe /\ OnlyB
    \/ LeaderConnect /\ OnlyB
    \/ LeaderRecvHandshake /\ OnlyB
    \/ LeaderParseHandshake /\ OnlyB
    \/ LeaderSend(BOOLEAN) /\ OnlyB
    \/ LeaderInterrupt /\ OnlyB
    \/ LeaderFinally /\ OnlyB
    \/ ServiceSend /\ OnlyB
    \/ ServiceClose /\ OnlyB
    \/ StrangerConnect /\ OnlyB
    \/ StrangerSend /\ OnlyB
    \/ StrangerClose /\ OnlyB

SpecB == InitB /\ [][NextB]_vars

\* Profile B, session establishment: the two programs with the service at
\* another host, no other client and no interrupt.  Each program takes the
\* step it is at whenever that step stays possible: a blocking call returns
\* once it can.  Nothing is assumed of the peers.
FollowerStep ==
    \/ FollowerBind(BindOutcomes) /\ OnlyB
    \/ FollowerAccept /\ OnlyB
    \/ FollowerHandshake(BOOLEAN) /\ OnlyB
    \/ FollowerRecv /\ OnlyB
    \/ FollowerFinally(BOOLEAN) /\ OnlyB

LeaderStep ==
    \/ DiscoverStart(BOOLEAN) /\ OnlyB
    \/ DiscoverProbe /\ OnlyB
    \/ LeaderConnect /\ OnlyB
    \/ LeaderRecvHandshake /\ OnlyB
    \/ LeaderParseHandshake /\ OnlyB
    \/ LeaderSend(BOOLEAN) /\ OnlyB
    \/ LeaderFinally /\ OnlyB

NextE ==
    \/ FollowerBind(BindOutcomes) /\ OnlyB
    \/ FollowerAccept /\ OnlyB
    \/ FollowerHandshake(BOOLEAN) /\ OnlyB
    \/ FollowerRecv /\ OnlyB
    \/ FollowerFinally(BOOLEAN) /\ OnlyB
    \/ DiscoverStart(BOOLEAN) /\ OnlyB
    \/ DiscoverProbe /\ OnlyB
    \/ LeaderConnect /\ OnlyB
    \/ LeaderRecvHandshake /\ OnlyB
    \/ LeaderParseHandshake /\ OnlyB
    \/ LeaderSend(BOOLEAN) /\ OnlyB
    \/ LeaderFinally /\ OnlyB
    \/ ServiceSend /\ OnlyB
    \/ ServiceClose /\ OnlyB

SpecE == InitB /\ [][NextE]_vars /\ WF_vars(FollowerStep) /\ WF_vars(LeaderStep)

\* ================================================================ claims

\* C1 (Profile A, command direction): at most one unconsumed Command is ever
\* buffered between leader and follower, and a Command that was followed by
\* another send before the follower's next tick is never applied.
C1_SingleCommandBuffered ==
    /\ Len(c_cmd_pipe) + Len(s_cmd_pipe) <= 1
    /\ applied \cap superseded = {}

\* C2, as claimed: when the follower has sent one or more Observations since
\* the previous get_observation() call (one that returned an Observation),
\* the next call returns the Observation sent last.
C2_ReturnsLastSent ==
    [][(GetObservation /\ last_observation.seq >= 1 /\ obs_since_get >= 1) =>
         last_observation'.seq = obs_seq]_vars

\* C2, amended: a get_observation() call that finds Observations arrived at
\* the client's socket returns the one that arrived last; no Observation that
\* arrived before it is returned by that call or a later one (the call empties
\* the pipe, and what it returns is never older than what it returned before).
C2_ReturnsLastArrived ==
    [][GetObservation =>
         /\ c_obs_pipe # <<>> => last_observation'.seq = Last(c_obs_pipe).seq
         /\ \A i \in 1..Len(c_obs_pipe) : c_obs_pipe[i].seq <= last_observation'.seq
         /\ c_obs_pipe' = <<>>
         /\ last_observation'.seq >= last_observation.seq]_vars

\* A get_observation() call has read two Observations and returned the later.
C2_Witness == drained >= 2 /\ last_observation.seq >= 2

\* The kinds of message the follower has sent and the client has received:
\* main sends Observations only, and connect() reads nothing.
SentKinds == IF obs_seq > 0 THEN {"observation"} ELSE {}
ReceivedKinds == IF obs_readable THEN {"observation"} ELSE {}

\* C3 (Profile B end to end): once the leader has found the follower with
\* discover_host, the connection the follower accepts, greets and reads is
\* the one the leader opens to the returned address, and the follower does
\* not close or reset that connection while the leader keeps it open.  No
\* other client takes part and the follower is not interrupted.
C3_EndToEnd ==
    (l_ip = faddr /\ sstat["stranger"] = "none" /\ b_exc = "none") =>
        /\ b_conn \in {"none", "session"}
        /\ copen["session"] => sstat["session"] \in {"queued", "accepted"}

\* C4 (Profile B handshake ordering): the follower sends exactly one handshake
\* line on the accepted connection before it reads from it or applies a
\* Command, and the leader writes no Command before it has read a complete
\* newline-terminated handshake line.
C4_HandshakeOrdering ==
    /\ b_hs_sent <= 1
    /\ (b_pc = "read" \/ b_recvs > 0 \/ b_applied # <<>>) => b_hs_sent = 1
    /\ (l_pc = "loop" \/ l_sent > 0) => (HasNewline(l_buffer) /\ l_handshake # "none")

C4_Witness == b_applied # <<>> /\ b_recvs >= 2 /\ l_sent > 0


C6_EdgeTriggered ==
    /\ trip_warnings <= 1
    /\ watchdog_active <=> (trip_warnings = 1)
    /\ fpc \in AfterWatchdog =>
         (trip_warnings = IF Stale(now, last_cmd_time) THEN 1 ELSE 0)

\* A second stale interval, after an applied Command, has logged its warning.
C6_Witness == trips = 2 /\ trip_warnings = 1 /\ applied # {}

\* C7, as claimed: at every tick the follower is tripped exactly when the
\* time since the last applied Command exceeds watchdog_timeout_ms, and a
\* follower that is tripped after a Command has logged exactly one warning
\* since it applied that Command.
C7_ExactlyOneWarning ==
    /\ fpc \in AfterWatchdog =>
         (watchdog_active <=> now - last_cmd_time > cfg.watchdog_timeout_ms)
    /\ (applied # {} /\ watchdog_active) => trip_warnings + nocmd_warnings = 1

\* C7, amended: at every tick the follower is tripped exactly when the time
\* since the last applied Command exceeds watchdog_timeout_ms, and a follower
\* that is tripped has logged exactly one "Command not received" warning since
\* that Command, one that is not tripped none.
C7_WatchdogTiming ==
    /\ fpc \in AfterWatchdog =>
         (watchdog_active <=> now - last_cmd_time > cfg.watchdog_timeout_ms)
    /\ watchdog_active => trip_warnings = 1
    /\ ~watchdog_active => trip_warnings = 0

\* Tripped after an applied Command, with "No command available" warnings
\* logged besides the tripped one.
C7_Witness ==
    applied # {} /\ watchdog_active /\ trip_warnings = 1 /\ nocmd_warnings >= 1

\* C8, as claimed: the loop is left only by an interrupt or an error.
C8_ExitOnlyOnSignalOrError ==
    fpc \in {"finally_robot", "finally_host", "done"} => fexc \in {"kbint", "error"}

\* C8, amended: the loop is left only by an interrupt, by an exception that
\* escapes a tick, or at the loop test once the time since the loop started
\* has reached connection_time_s.
C8_LoopExits ==
    [][(fpc \in InTry /\ fpc' \notin InTry) =>
         \/ fexc' = "kbint"
         \/ fexc' = "error" /\ fpc \in {"observe", "send"}
         \/ fpc = "loop_check" /\ fexc' = "none" /\ duration >= cfg.connection_time_s]_vars

\* The loop has ended because connection_time_s has passed.
C8_Witness ==
    fpc = "finally_robot" /\ fexc = "none" /\ duration >= cfg.connection_time_s

\* C9 (Profile A teardown): when the follower program has ended, the robot is
\* disconnected and every resource of the server is closed.
C9_TeardownA ==
    fpc \in {"done", "raised"} => (~robot_connected /\ host_open = {})

\* C10 (Profile B follower teardown): when the follower program has ended
\* after robot.connect() succeeded, the robot is disconnected and the
\* listening socket and the accepted connection, if opened, are closed.
C10_TeardownB ==
    b_pc \in {"done", "raised"} =>
        /\ ~b_robot_connected
        /\ b_server \in {"none", "closed"}
        /\ ~b_conn_open

\* C11 (Profile B follower line handling): a line that is no well-formed JSON
\* message, whatever its bytes, is skipped and the lines after it are
\* processed; once the read loop has been entered, the session ends only when
\* the peer has closed and everything it sent was read (or a receive fails),
\* or on an interrupt.
C11_MalformedSkipped ==
    (b_recvs > 0 /\ b_pc \in {"finally", "done", "raised"} /\ b_exc # "kbint") =>
        /\ b_exc = "none"
        /\ ~copen[b_conn]
        /\ wire_up[b_conn] = <<>>

\* C12 (Profile A follower command errors): a Command that raises while it is
\* decoded or applied does not end the loop and is not applied; the same tick
\* goes on to evaluate the watchdog (with the time of the last applied Command
\* untouched), read the observation and attempt the send, and the loop then
\* runs its next tick unless connection_time_s has passed.
C12_CommandErrorKeepsLoop ==
    [][ /\ (fpc = "recv" /\ fpc' # fpc /\ cmd_error') =>
               /\ fpc' = "watchdog"
               /\ fexc' = "none"
               /\ applied' = applied
               /\ last_cmd_time' = last_cmd_time
        /\ (cmd_error /\ fpc = "watchdog" /\ fpc' # fpc) =>
               /\ fpc' = "observe"
               /\ watchdog_active' = (watchdog_active \/ Stale(now', last_cmd_time))
        /\ (cmd_error /\ fpc = "observe" /\ fpc' # fpc) =>
               /\ fpc' = "send"
               /\ f_observation' # NoObservation
        /\ (cmd_error /\ fpc = "send" /\ fpc' # fpc) =>
               /\ fpc' = "sleep"
               /\ obs_link => obs_seq' = obs_seq + 1
        /\ (cmd_error /\ fpc = "sleep" /\ fpc' # fpc) => fpc' = "loop_check"
        /\ (cmd_error /\ fpc = "loop_check" /\ fpc' # fpc
                      /\ duration < cfg.connection_time_s) => fpc' = "recv"
        /\ cmd_error' => fexc' = "none"
      ]_vars

\* A tick whose Command raised has completed and the next tick is about to
\* receive.
C12_Witness ==
    cmd_error /\ fpc = "recv" /\ fexc = "none"

\* C13 (Profile A sends never block): a message sent while the peer is absent
\* is dropped and is not delivered later: no Command that send_action sent
\* while the command link was down is held in a pipe or applied by the
\* follower, and the follower holds no Observation for an absent peer.
C13_SendsDropWithoutPeer ==
    /\ \A k \in unlinked :
          /\ k \notin applied
          /\ \A i \in 1..Len(c_cmd_pipe) : c_cmd_pipe[i] # k
          /\ \A i \in 1..Len(s_cmd_pipe) : s_cmd_pipe[i] # k
    /\ ~obs_link => s_obs_pipe = <<>>

\* C14 (discover_host): the hosts of the range are probed in ascending
\* order, each at most once; the host returned is the first that accepted its
\* probe, every host before it refused and none after it is probed, so with
\* the follower not accepting and one other host listening that host is
\* returned; None is returned only after every host was probed and refused.
C14_FirstAcceptingHost ==
    /\ l_probed = [i \in 1..Len(l_probed) |-> i]
    /\ l_ip # 0 =>
          /\ l_pc # "scan"
          /\ Len(l_probed) = l_ip
          /\ l_ip = faddr \/ l_ip \in others_open
          /\ \A h \in others_open : h >= l_ip
    /\ l_ip = 0 => l_pc \in {"off", "discover", "scan", "raised"}
    /\ l_scan > NumHosts =>
          /\ l_ip = 0
          /\ Len(l_probed) = NumHosts
          /\ others_open = {}

\* The second host was returned after the first one refused.
C14_Witness ==
    l_ip = 2 /\ l_pc = "connect" /\ l_probed = <<1, 2>>

\* C15 (leader handshake failure): unless the leader has read a handshake
\* line that carries the readiness status and the capability list, it does
\* not go on: it connects no teleoperator, does not enter the teleoperation
\* loop and writes no Command.
C15_HandshakeFailureAborts ==
    l_handshake # "ready" => (l_sent = 0 /\ ~l_teleop /\ l_pc # "loop")

\* C16 (follower-side encode failure): an Observation the follower has sent
\* never carries a camera field whose encoding failed: the field holds the
\* encoded frame or is left out, it is not sent with an empty payload.
C16_EncodeFailureOmitsField ==
    /\ \A i \in 1..Len(s_obs_pipe) : s_obs_pipe[i].cam \in {"b64", "absent"}
    /\ \A i \in 1..Len(c_obs_pipe) : c_obs_pipe[i].cam \in {"b64", "absent"}

\* C17 (leader-side decode failure): a get_observation() call that decodes an
\* Observation raises nothing and returns it with its other fields as
\* received; the camera field holds the decoded frame or is not there at all,
\* and it is not there when its payload was missing or empty.
C17_DecodeFailureDropsField ==
    [][(GetObservation /\ last_poll' = "decoded") =>
         /\ last_observation'.seq = Last(c_obs_pipe).seq
         /\ last_observation'.cam \in {"frame", "absent"}
         /\ Last(c_obs_pipe).cam \in {"", "absent"} => last_observation'.cam = "absent"
         /\ is_connected']_vars

\* An Observation was decoded and returned without its camera field.
C17_Witness ==
    last_poll = "decoded" /\ last_observation.seq >= 1 /\ last_observation.cam = "absent"

\* C18 (last-known-value reuse): a get_observation() call whose poll times
\* out, or whose received message is no decodable JSON, raises nothing and
\* leaves the stored observation, which it returns, as it was.
C18_LastKnownValueReused ==
    [][(GetObservation /\ (c_obs_pipe = <<>> \/
                            Last(c_obs_pipe).cam \in {"not_json", "xff"})) =>
         /\ last_observation' = last_observation
         /\ last_poll' # "raised"]_vars

\* C20 (failed connect on the client): a client that is not connected, and
\* not inside connect(), holds no open socket and no open context.
C20_FailedConnectReleases ==
    (~is_connected /\ cpc # "polling") => c_open = 0

\* C19 (bounded session establishment in Profile B): the follower's wait for
\* a connection, the leader's connect and the leader's read of the handshake
\* each come to an end, whatever the peer does.
C19_BoundedEstablishment ==
    /\ (b_pc = "accept") ~> (b_pc # "accept")
    /\ (l_pc = "connect") ~> (l_pc # "connect")
    /\ (l_pc = "handshake") ~> (l_pc # "handshake")

\* C21 (passive beacon): every datagram the discovery thread received while
\* the server ran is answered to its sender with the command port's number if
\* its payload is the discovery token (unless that reply failed) and gets no
\* reply otherwise; and as long as the server runs the thread is there to
\* receive the next datagram, whatever it has handled.
C21_PassiveBeacon ==
    /\ \A i \in 1..Len(d_received) :
          LET m == d_received[i]
          IN  /\ m.payload = DiscoveryToken =>
                    \/ m.id \in d_failed
                    \/ [id |-> m.id, to |-> m.sender, data |-> CmdPortText] \in d_replies
              /\ m.payload # DiscoveryToken => \A r \in d_replies : r.id # m.id
    /\ \A r \in d_replies :
          /\ r.data = CmdPortText
          /\ \E i \in 1..Len(d_received) :
                d_received[i].id = r.id /\ d_received[i].sender = r.to
    /\ (fpc \in InTry \cup {"finally_robot", "finally_host"}) => d_pc = "recv"

\* C22 (drift-compensated tick timing): the sleep that ends a tick is
\* max(1/f - elapsed, 0) with elapsed counted from that tick's own start, so
\* the tick lasts max(1/f, its work): at least 1/f, and exactly 1/f when its
\* work took less; the next tick starts where this one ends, whatever earlier
\* ticks took.
C22_TickTiming ==
    [][ /\ (fpc = "sleep" /\ fpc' = "loop_check") =>
              LET elapsed == clock - loop_start_time
              IN  /\ clock' - clock = Max(Period - elapsed, 0)
                  /\ clock' - loop_start_time = Max(Period, elapsed)
                  /\ clock' - loop_start_time >= Period
                  /\ elapsed < Period => clock' - loop_start_time = Period
                  /\ loop_start_time' = loop_start_time
        /\ (fpc = "loop_check" /\ fpc' = "recv") =>
              /\ loop_start_time' = clock
              /\ clock' = clock
              /\ loop_start_time > start => clock - loop_start_time >= Period
      ]_vars

\* A tick after the first has lasted exactly one period.
C22_Witness ==
    fpc = "loop_check" /\ loop_start_time > start /\ clock - loop_start_time = Period

\* C23 (Profile B follower framing): whatever bytes a receive call returns,
\* the follower applies, after what it had applied, exactly the well-formed
\* non-empty lines completed so far, once each and in order, and keeps the
\* bytes after the last newline for the next call.  Holding at every receive
\* call, this is the claim for the whole stream and every way of splitting it.
C23_Framing ==
    [][(b_pc = "read" /\ b_recvs' = b_recvs + 1) =>
         LET data == SubSeq(wire_up[b_conn], 1,
                            Len(wire_up[b_conn]) - Len(wire_up'[b_conn]))
             bytes == b_buffer \o data
         IN  /\ b_applied' = b_applied \o WellFormedLines(bytes)
             /\ b_buffer' = IncompleteTail(bytes)]_vars

\* C24 (leader client session states): between calls is_connected is true
\* exactly when the client's sockets are open; connect on a connected client
\* raises DeviceAlreadyConnectedError and get_observation, send_action and
\* disconnect on a client that is not connected raise DeviceNotConnectedError,
\* each leaving the session, the sockets and their pipes as they were; and no
\* call of the three sends, receives or closes while not connected.
C24_SessionStates ==
    /\ [](cpc # "polling" => (is_connected <=> ClientSocketsOpen))
    /\ [][/\ c_rejected' # c_rejected =>
                /\ UNCHANGED <<cpc, is_connected, last_observation, c_open, zmqVars>>
                /\ IF c_rejected'.call = "connect"
                     THEN is_connected
                          /\ c_rejected'.error = "DeviceAlreadyConnectedError"
                     ELSE ~is_connected
                          /\ c_rejected'.error = "DeviceNotConnectedError"
          /\ (~is_connected /\ cpc # "polling") =>
                /\ cmd_seq' = cmd_seq /\ c_cmd_pipe' = c_cmd_pipe
                /\ drained' = drained /\ last_poll' = last_poll
                /\ c_open' >= c_open
          /\ is_connected => connects' = connects]_vars

====
